---- MODULE Spec2Model ----
(***************************************************************************)
(* HermesHandler: message router.  One dispatch call of one HermesHandler  *)
(* instance, from construction to the settlement of the dispatch promise   *)
(* and beyond (the handler may keep running after a timeout).              *)
(*                                                                         *)
(* Spec and FairSpec: one dispatch, under every combination of options.    *)
(* RegSpec: register, registerMany and unregister interleaved with a       *)
(* dispatch.  TwoSpec: two interleaved dispatches on one instance.         *)
(* FreezeSpec: the caller assigns to the fields of a delivered envelope.   *)
(* UnknownSpec: onUnknown returns what a handler returns.  NestSpec: the   *)
(* handler returns an envelope of a nested dispatch.  ListenerSpec: the    *)
(* message arrives through the function that getListener returned.         *)
(*                                                                         *)
(* JavaScript values are tagged records; every tag has its own field name  *)
(* for the carried value, so that values of different types are never      *)
(* compared field by field.                                                *)
(***************************************************************************)
EXTENDS Integers, Sequences, FiniteSets, TLC

\* ------------------------------------------------------------------------
\* Bounds of the model
\* ------------------------------------------------------------------------

\* how many times the handler (or what it left behind) calls ctx.send
MaxSends == 2

\* ------------------------------------------------------------------------
\* JavaScript values
\* ------------------------------------------------------------------------

Undef == [t |-> "undefined"]

Null == [t |-> "null"]

Str(s) == [t |-> "string", s |-> s]

Num(n) == [t |-> "number", n |-> n]

Infinity == [t |-> "number", inf |-> TRUE]

Bool(b) == [t |-> "boolean", b |-> b]

\* a plain object: f maps its own keys to values
Obj(f) == [t |-> "object", f |-> f, frozen |-> FALSE]

\* new Error(m)
NewError(m) == [t |-> "Error", message |-> m]

\* a function value, named by id
Fn(id) == [t |-> "function", id |-> id]

\* Object.freeze
ObjectFreeze(o) == [o EXCEPT !.frozen = TRUE]

\* the empty key/value map
NoFields == [k \in {} |-> Undef]

\* !v
Falsy(v) ==
    \/ v.t \in {"undefined", "null"}
    \/ v.t = "string" /\ v.s = ""
    \/ v.t = "number" /\ "n" \in DOMAIN v /\ v.n = 0
    \/ v.t = "boolean" /\ ~v.b

\* typeof v === "object" (null excluded by the callers' truthiness test)
TypeofObject(v) == v.t \in {"object", "Error", "null"}

\* k in v, for an object v
In(k, v) ==
    \/ v.t = "object" /\ k \in DOMAIN v.f
    \/ v.t = "Error" /\ k = "message"

\* v.k (undefined when absent)
Get(v, k) ==
    IF v.t = "object" /\ k \in DOMAIN v.f THEN v.f[k]
    ELSE IF v.t = "Error" /\ k = "message" THEN Str(v.message)
    ELSE Undef

\* String(v), `${v}`
String(v) ==
    CASE v.t = "undefined" -> "undefined"
      [] v.t = "null" -> "null"
      [] v.t = "string" -> v.s
      [] v.t = "number" -> IF "n" \in DOMAIN v THEN ToString(v.n) ELSE "Infinity"
      [] v.t = "boolean" -> IF v.b THEN "true" ELSE "false"
      [] v.t = "Error" -> IF v.message = "" THEN "Error" ELSE "Error: " \o v.message
      [] v.t = "function" -> "function"
      [] OTHER -> "[object Object]"

\* Number.isFinite(v)
NumberIsFinite(v) == v.t = "number" /\ "n" \in DOMAIN v

\* ------------------------------------------------------------------------
\* Internal helpers
\* ------------------------------------------------------------------------

isFn(value) == value.t = "function"

\* toErrorString that stringifies every value, Error objects included
toErrorString_String(err) == String(err)

toErrorString(err) ==
    IF err.t = "Error"
    THEN (IF err.message # "" THEN err.message ELSE String(err))
    ELSE IF ~Falsy(err) /\ err.t = "object" /\ In("message", err)
              /\ Get(err, "message").t = "string"
         THEN Get(err, "message").s
         ELSE String(err)

HERMES_KEYS_SUCCESS == {"ok", "result", "info"}

HERMES_KEYS_ERROR == {"ok", "error", "info"}

\* addInfo skips undefined values; the own keys are copied after handlerInfo,
\* so an own key named handlerInfo overwrites the one taken from payload.info
collectInfo(payload, skipKeys) ==
    LET f == payload.f
        fromInfo == IF In("info", payload) /\ f["info"] # Undef
                    THEN {"handlerInfo"} ELSE {}
        own == {k \in DOMAIN f : k \notin skipKeys /\ f[k] # Undef}
    IN  IF fromInfo \cup own = {}
        THEN Null
        ELSE Obj([k \in fromInfo \cup own |->
                     IF k \in own THEN f[k] ELSE f["info"]])

\* a normalizer that reads `ok` by truthiness instead of refusing an `ok` that
\* is not a boolean, and that supplies a missing error
normalizePayload_Lenient(payload) ==
    IF Falsy(payload) \/ ~TypeofObject(payload) \/ ~In("ok", payload)
    THEN Obj([ok |-> Bool(TRUE), result |-> payload])
    ELSE IF Falsy(Get(payload, "ok"))
    THEN Obj([ok |-> Bool(FALSE), error |-> Str(String(Get(payload, "error")))])
    ELSE Obj([ok |-> Bool(TRUE)])

normalizePayload(payload) ==
    IF Falsy(payload) \/ ~TypeofObject(payload) \/ ~In("ok", payload)
    THEN Obj([ok |-> Bool(TRUE), result |-> payload])
    ELSE IF Get(payload, "ok").t # "boolean"
    THEN Obj([ok |-> Bool(FALSE),
              error |-> Str("Invalid response: 'ok' must be boolean")])
    ELSE IF ~Get(payload, "ok").b
    THEN IF Get(payload, "error").t # "string"
         THEN Obj([ok |-> Bool(FALSE),
                   error |-> Str("Invalid response: missing 'error' string")])
         ELSE LET info == collectInfo(payload, HERMES_KEYS_ERROR)
              IN  IF info # Null
                  THEN Obj([ok |-> Bool(FALSE), error |-> Get(payload, "error"),
                            info |-> info])
                  ELSE Obj([ok |-> Bool(FALSE), error |-> Get(payload, "error")])
    ELSE LET info == collectInfo(payload, HERMES_KEYS_SUCCESS)
             keys == {"ok"}
                       \cup (IF In("result", payload) THEN {"result"} ELSE {})
                       \cup (IF info # Null THEN {"info"} ELSE {})
         IN  Obj([k \in keys |->
                     CASE k = "ok" -> Bool(TRUE)
                       [] k = "result" -> Get(payload, "result")
                       [] OTHER -> info])

\* a freezeNormalized that returns the normalized payload as it is
freezeNormalized_NoFreeze(payload) == normalizePayload(payload)

freezeNormalized(payload) == ObjectFreeze(normalizePayload(payload))

\* ------------------------------------------------------------------------
\* Promises
\* ------------------------------------------------------------------------

Pending == [state |-> "pending", v |-> Undef]

Fulfilled(v) == [state |-> "fulfilled", v |-> v]

Rejected(e) == [state |-> "rejected", v |-> e]

\* a promise that every resolve(...) / reject(...) settles anew
Settle_LastWins(p, outcome) == outcome

\* resolve(...) / reject(...) of a promise: only the first call has an effect
Settle(p, outcome) == IF p.state = "pending" THEN outcome ELSE p

\* ------------------------------------------------------------------------
\* Inputs
\* ------------------------------------------------------------------------

\* a collaborator (onUnknown, onError) either is the default one, returns a
\* given value, or throws a given value
Default == [kind |-> "default"]

Returns(v) == [kind |-> "returns", v |-> v]

Throws(e) == [kind |-> "throws", e |-> e]

\* the outcome of a call: a returned value or a thrown one
Returned(v) == [threw |-> FALSE, v |-> v]

Thrown(e) == [threw |-> TRUE, v |-> e]

TimeoutOptions == {Undef, Num(10), Num(0), Infinity}

OnUnknownOptions == {Default, Returns(Str("fallback")), Throws(NewError("unknown failed"))}

OnErrorOptions ==
    {Default, Returns(Str("recovered")),
     Returns(Obj([ok |-> Bool(FALSE), error |-> Str("custom")])),
     Throws(NewError("onError failed"))}

\* the constructor stores the entries of initialHandlers without checking them
InitialHandlerOptions ==
    {<<>>, <<[type |-> "ping", fn |-> Fn("ping1")]>>,
     <<[type |-> "ping", fn |-> Str("not a function")]>>}

\* the types and the values that register, registerMany and unregister get
RegTypes == {"ping", "pong"}

RegValues == {Fn("ping1"), Fn("ping2"), Str("not a function")}

\* Object.entries(map ?? {}) of the maps that registerMany gets
RegMaps ==
    {<<>>,
     <<[type |-> "ping", fn |-> Fn("ping2")],
       [type |-> "pong", fn |-> Fn("pong1")]>>,
     <<[type |-> "pong", fn |-> Fn("pong2")],
       [type |-> "ping", fn |-> Str("not a function")],
       [type |-> "ping", fn |-> Fn("ping1")]>>}

\* the messages dispatched and the values returned while the registry changes
RegMessages == {Obj([type |-> Str(t)]) : t \in RegTypes}

RegReturnValues == {Undef, Str("pong")}

Messages ==
    {Undef, Null, Str("ping"), Obj(NoFields), Obj([type |-> Num(7)]),
     Obj([type |-> Str("")]), Obj([type |-> Str("ping")]),
     Obj([type |-> Str("pong")]), Obj([type |-> Str("nope")])}

\* what a handler passes to ctx.send
SendPayloads ==
    {Str("first"), Str("second"), Obj([ok |-> Bool(FALSE), error |-> Str("")]),
     Obj([ok |-> Num(1)]), Obj([ok |-> Bool(FALSE), error |-> Num(5)])}

\* what a handler returns
ReturnValues ==
    {Undef, Null, Bool(FALSE), Str("pong"), Num(42),
     Obj([ok |-> Bool(TRUE), result |-> Str("r"), extra |-> Num(1)]),
     Obj([ok |-> Bool(TRUE), result |-> Str("r"), error |-> Str("oops")]),
     Obj([ok |-> Bool(FALSE), error |-> Str("e"), result |-> Str("partial"),
          info |-> Str("i")]),
     Obj([ok |-> Bool(TRUE), info |-> Str("a"), handlerInfo |-> Str("b")]),
     Obj([ok |-> Bool(FALSE), error |-> Str("boom")]),
     Obj([ok |-> Bool(FALSE), error |-> Str("")]),
     Obj([ok |-> Bool(FALSE)]),
     Obj([ok |-> Str("yes")])}

\* what a handler throws
ThrownValues ==
    {NewError("boom"), NewError(""), Str(""), Undef,
     Obj([message |-> Str("")]), Obj([message |-> Num(3)])}

\* ------------------------------------------------------------------------
\* State
\* ------------------------------------------------------------------------

VARIABLES
    handlers,        \* this._handlers: sequence of [type, fn], insertion order
    timeoutMs,       \* this._timeoutMs
    onUnknown,       \* this._onUnknown
    onError,         \* this._onError
    hasAbortController, \* typeof AbortController !== "undefined"
    dpc,             \* position of _dispatch: "idle", "awaiting", "done"
    msg,             \* argument of _dispatch
    responded,       \* let responded
    payloadToReturn, \* let payloadToReturn
    signal,          \* controller.signal: "undefined", "active", "aborted"
    fn,              \* const fn = this._handlers.get(type)
    timer,           \* timerId: "none", "pending", "fired", "cleared"
    race,            \* the promise returned by withTimeout
    hpc,             \* the handler: "notcalled", "queued", "running",
                     \*   "returned", "threw", "hung"
    chain,           \* Promise.resolve().then(fn): outcome not yet passed on
    promise,         \* the promise returned by _dispatch
    sendCalls,       \* history: number of calls of ctx.send
    firstPayload,    \* history: argument of the first call of ctx.send
    respondedBy,     \* history: call site of the first call of ctx.send
    handlerSends,    \* history: calls of ctx.send made by the handler
    timersAllocated, \* history: number of setTimeout calls
    deliveries,      \* history: settlements of the _dispatch promise
    callee,          \* history: the value the thunk () => fn(msg, ctx) called
    collabCalls,     \* history: number of calls of onUnknown and of onError
    lastOp,          \* history: the last register/registerMany/unregister
    latest,          \* history: per type, the value registered last, if any
    peer,            \* a second dispatch on the same HermesHandler
    listener         \* a call of the function that getListener returned

options == <<timeoutMs, onUnknown, onError, hasAbortController>>

registry == <<handlers, lastOp, latest>>

config == <<registry, options>>

\* what is outside the dispatch
outside == <<config, peer, listener>>

invocations == <<callee, collabCalls>>

ctxVars == <<responded, payloadToReturn>>

sendHistory == <<sendCalls, firstPayload, respondedBy>>

vars == <<handlers, timeoutMs, onUnknown, onError, hasAbortController,
          dpc, msg, responded, payloadToReturn, signal, fn, timer, race,
          hpc, chain, promise, sendCalls, firstPayload, respondedBy,
          handlerSends, timersAllocated, deliveries, callee, collabCalls,
          lastOp, latest, peer, listener>>

\* the state of a dispatch
inFlight == <<dpc, msg, responded, payloadToReturn, signal, fn, timer, race,
              hpc, chain, promise, sendCalls, firstPayload, respondedBy,
              handlerSends, timersAllocated, deliveries, callee, collabCalls>>

NoChain == [k |-> "none", v |-> Undef]

\* ------------------------------------------------------------------------
\* Construction
\* ------------------------------------------------------------------------

DefaultTimeoutMs == 5000

\* this._handlers.get(type)
HandlersGet(h, type) ==
    IF \E i \in 1..Len(h) : h[i].type = type
    THEN h[CHOOSE i \in 1..Len(h) : h[i].type = type].fn
    ELSE Undef

\* a default onUnknown whose message leaves the type out
CallOnUnknown_NoType(collab, m) ==
    CASE collab.kind = "default" ->
            Returned(Obj([ok |-> Bool(FALSE),
                          error |-> Str("Unknown msg.type")]))
      [] collab.kind = "returns" -> Returned(collab.v)
      [] OTHER -> Thrown(collab.e)

\* the default onUnknown and a configured one
CallOnUnknown(collab, m) ==
    CASE collab.kind = "default" ->
            Returned(Obj([ok |-> Bool(FALSE),
                          error |-> Str("Unknown msg.type: " \o String(Get(m, "type")))]))
      [] collab.kind = "returns" -> Returned(collab.v)
      [] OTHER -> Thrown(collab.e)

\* a default onError that returns the bare message instead of an envelope
CallOnError_Bare(collab, err) ==
    CASE collab.kind = "default" -> Returned(Str(toErrorString(err)))
      [] collab.kind = "returns" -> Returned(collab.v)
      [] OTHER -> Thrown(collab.e)

\* the default onError and a configured one
CallOnError(collab, err) ==
    CASE collab.kind = "default" ->
            Returned(Obj([ok |-> Bool(FALSE), error |-> Str(toErrorString(err))]))
      [] collab.kind = "returns" -> Returned(collab.v)
      [] OTHER -> Thrown(collab.e)

\* a dispatch that has not been called: its closure does not exist yet
\* the listener has not been called
ListenerIdle ==
    [lpc |-> "idle", sendResponse |-> Undef, returned |-> "nothing",
     calls |-> <<>>, err |-> Undef]

PeerIdle ==
    [dpc |-> "idle", msg |-> Undef, responded |-> FALSE,
     payloadToReturn |-> Undef, signal |-> "undefined", fn |-> Undef,
     timer |-> "none", race |-> Pending, hpc |-> "notcalled",
     chain |-> NoChain, promise |-> Pending, sendCalls |-> 0,
     firstPayload |-> Undef, handlerSends |-> 0]

\* the instance after construction: no dispatch has been called
NothingDispatched ==
    /\ dpc = "idle"
    /\ msg = Undef
    /\ responded = FALSE
    /\ payloadToReturn = Undef
    /\ signal = "undefined"
    /\ fn = Undef
    /\ timer = "none"
    /\ race = Pending
    /\ hpc = "notcalled"
    /\ chain = NoChain
    /\ promise = Pending
    /\ sendCalls = 0
    /\ firstPayload = Undef
    /\ respondedBy = "none"
    /\ handlerSends = 0
    /\ timersAllocated = 0
    /\ deliveries = 0
    /\ callee = Undef
    /\ collabCalls = [onUnknown |-> 0, onError |-> 0]
    /\ lastOp = [op |-> "constructor"]
    /\ peer = PeerIdle
    /\ listener = ListenerIdle
    /\ latest = [t \in RegTypes |->
                    IF \E i \in 1..Len(handlers) : handlers[i].type = t
                    THEN handlers[CHOOSE i \in 1..Len(handlers) :
                                      handlers[i].type = t].fn
                    ELSE Undef]

\* new HermesHandler(initialHandlers, { timeoutMs, onUnknown, onError })
Init ==
    /\ handlers \in InitialHandlerOptions
    /\ \E opt \in TimeoutOptions :
          timeoutMs = IF opt = Undef THEN Num(DefaultTimeoutMs) ELSE opt
    /\ onUnknown \in OnUnknownOptions
    /\ onError \in OnErrorOptions
    /\ hasAbortController \in BOOLEAN
    /\ NothingDispatched

\* ------------------------------------------------------------------------
\* The registry
\* ------------------------------------------------------------------------

\* the caller's and the handler's code run in tasks or microtasks of their
\* own: not between the timer callback and the continuation of the await that
\* the callback queued
HandlerMayRun == /\ ~(dpc = "awaiting" /\ timer = "fired")
                 /\ ~(peer.dpc = "awaiting" /\ peer.timer = "fired")

\* Map.prototype.has
MapHas(h, type) == \E i \in 1..Len(h) : h[i].type = type

\* a Map.prototype.set that moves an existing key to the end
MapSet_MoveToEnd(h, type, f) ==
    Append(SelectSeq(h, LAMBDA e : e.type # type), [type |-> type, fn |-> f])

\* Map.prototype.set: an existing key keeps its place, a new one goes last
MapSet(h, type, f) ==
    IF MapHas(h, type)
    THEN [i \in 1..Len(h) |->
             IF h[i].type = type THEN [type |-> type, fn |-> f] ELSE h[i]]
    ELSE Append(h, [type |-> type, fn |-> f])

\* Map.prototype.delete
MapDelete(h, type) == SelectSeq(h, LAMBDA e : e.type # type)

\* [...this._handlers.keys()]
types == [i \in 1..Len(handlers) |-> handlers[i].type]

\* this._handlers.has(type)
has(type) == MapHas(handlers, type)

\* a register that stores whatever it is given
register_Unchecked(h, type, f) ==
    [threw |-> FALSE, handlers |-> MapSet(h, type, f)]

\* register(type, fn): throws for a value that is not a function
register(h, type, f) ==
    IF ~isFn(f)
    THEN [threw |-> TRUE, handlers |-> h]
    ELSE [threw |-> FALSE, handlers |-> MapSet(h, type, f)]

\* registerMany(map): register, entry by entry, until one throws
RECURSIVE registerMany(_, _)
registerMany(h, entries) ==
    IF entries = <<>>
    THEN [threw |-> FALSE, handlers |-> h]
    ELSE LET r == register(h, Head(entries).type, Head(entries).fn)
         IN  IF r.threw THEN r ELSE registerMany(r.handlers, Tail(entries))

\* the entries that registerMany registers: those before the first value
\* that is not a function
RECURSIVE Accepted(_)
Accepted(entries) ==
    IF entries = <<>> \/ ~isFn(Head(entries).fn)
    THEN <<>>
    ELSE <<Head(entries)>> \o Accepted(Tail(entries))

\* the values registered last, after the entries
RECURSIVE LatestAfter(_, _)
LatestAfter(l, entries) ==
    IF entries = <<>>
    THEN l
    ELSE LatestAfter([l EXCEPT ![Head(entries).type] = Head(entries).fn],
                     Tail(entries))

Register(type, f) ==
    /\ HandlerMayRun
    /\ handlers' = register(handlers, type, f).handlers
    /\ lastOp' = [op |-> "register", type |-> type, fn |-> f,
                  threw |-> register(handlers, type, f).threw]
    /\ latest' = IF isFn(f) THEN [latest EXCEPT ![type] = f] ELSE latest
    /\ UNCHANGED <<options, inFlight, peer, listener>>

RegisterMany(entries) ==
    /\ HandlerMayRun
    /\ handlers' = registerMany(handlers, entries).handlers
    /\ lastOp' = [op |-> "registerMany", entries |-> entries,
                  threw |-> registerMany(handlers, entries).threw]
    /\ latest' = LatestAfter(latest, Accepted(entries))
    /\ UNCHANGED <<options, inFlight, peer, listener>>

Unregister(type) ==
    /\ HandlerMayRun
    /\ handlers' = MapDelete(handlers, type)
    /\ lastOp' = [op |-> "unregister", type |-> type]
    /\ latest' = [latest EXCEPT ![type] = Undef]
    /\ UNCHANGED <<options, inFlight, peer, listener>>

\* ------------------------------------------------------------------------
\* Dispatch context
\* ------------------------------------------------------------------------

\* ctx.send without the responded guard: the last call wins
ctxSend_LastWins(ctx, payload) ==
    [responded |-> TRUE, payloadToReturn |-> freezeNormalized(payload)]

\* ctx.send(payload), as a function of the closure's variables
ctxSend(ctx, payload) ==
    IF ctx.responded
    THEN ctx
    ELSE [responded |-> TRUE, payloadToReturn |-> freezeNormalized(payload)]

\* the closure's variables
Ctx == [responded |-> responded, payloadToReturn |-> payloadToReturn]

\* a call of ctx.send: its argument and its call site
Call(payload, by) == [payload |-> payload, by |-> by]

\* the closure's variables after the calls of ctx.send in `calls`, in order
RECURSIVE ctxSendAll(_, _)
ctxSendAll(ctx, calls) ==
    IF calls = <<>> THEN ctx
    ELSE ctxSendAll(ctxSend(ctx, Head(calls).payload), Tail(calls))

\* the calls of ctx.send in `calls` are made, in order, on the closure ctx
Send(ctx, calls) ==
    /\ responded' = ctxSendAll(ctx, calls).responded
    /\ payloadToReturn' = ctxSendAll(ctx, calls).payloadToReturn
    /\ sendCalls' = sendCalls + Len(calls)
    /\ firstPayload' = IF sendCalls = 0 /\ calls # <<>>
                       THEN calls[1].payload ELSE firstPayload
    /\ respondedBy' = IF sendCalls = 0 /\ calls # <<>>
                      THEN calls[1].by ELSE respondedBy

\* controller.abort()
Abort(sig) == IF sig = "undefined" THEN sig ELSE "aborted"

\* ------------------------------------------------------------------------
\* Timeout race
\* ------------------------------------------------------------------------

\* withTimeout that never arms the deadline timer
TimerArmed_Never(ms) == FALSE

\* the case of withTimeout that arms a deadline timer
TimerArmed(ms) == NumberIsFinite(ms) /\ ms.n > 0

\* () => new Error(`Handler ${type} timed out (${this._timeoutMs} ms)`)
onTimeout(type, ms) ==
    NewError("Handler " \o type \o " timed out (" \o String(ms) \o " ms)")

\* clearTimeout(timerId)
cleanup(tm) == IF tm = "pending" THEN "cleared" ELSE tm

\* the microtask queue holds a job of a dispatch
MicrotaskPending ==
    \/ hpc = "queued"
    \/ chain.k # "none"
    \/ dpc = "awaiting" /\ race.state # "pending"
    \/ peer.hpc = "queued"
    \/ peer.chain.k # "none"
    \/ peer.dpc = "awaiting" /\ peer.race.state # "pending"
    \/ listener.lpc = "attached" /\ promise.state # "pending"
    \/ listener.lpc = "catching"

\* resolveWithCleanup that forgets cleanup()
resolveWithCleanup_NoCleanup(tm, p, value) ==
    [timer |-> tm, race |-> Settle(p, Fulfilled(value))]

\* resolveWithCleanup(value) on timer tm and race p
resolveWithCleanup(tm, p, value) ==
    [timer |-> cleanup(tm), race |-> Settle(p, Fulfilled(value))]

\* rejectWithCleanup(err) on timer tm and race p
rejectWithCleanup(tm, p, err) ==
    [timer |-> cleanup(tm), race |-> Settle(p, Rejected(err))]

\* ------------------------------------------------------------------------
\* _dispatch, up to its await
\* ------------------------------------------------------------------------

InvalidMsg == Obj([ok |-> Bool(FALSE),
                   error |-> Str("Invalid message: msg expected to be an object")])

InvalidType == Obj([ok |-> Bool(FALSE),
                    error |-> Str("Invalid message: msg missing string 'type'")])

NoResponse == Obj([ok |-> Bool(FALSE), error |-> Str("No response")])

\* msg.type of the message being dispatched
MsgType == Get(msg, "type").s

\* return of _dispatch before the context exists
ReturnInvalid(envelope) ==
    /\ promise' = Fulfilled(envelope)
    /\ deliveries' = deliveries + 1
    /\ dpc' = "done"
    /\ UNCHANGED <<responded, payloadToReturn, signal, fn, timer, race, hpc,
                   chain, sendHistory, handlerSends, timersAllocated,
                   invocations>>

\* no handler: ctx.send(this._onUnknown(msg, ctx)); return payloadToReturn
RouteUnknown(m, ctx) ==
    LET out == CallOnUnknown(onUnknown, m)
    IN  /\ IF out.threw
           THEN /\ responded' = ctx.responded
                /\ payloadToReturn' = ctx.payloadToReturn
                /\ UNCHANGED sendHistory
                /\ promise' = Rejected(out.v)
                /\ deliveries' = deliveries
           ELSE /\ Send(ctx, <<Call(out.v, "onUnknown")>>)
                /\ promise' = Fulfilled(payloadToReturn')
                /\ deliveries' = deliveries + 1
        /\ dpc' = "done"
        /\ collabCalls' = [collabCalls EXCEPT !.onUnknown = @ + 1]
        /\ UNCHANGED <<timer, race, hpc, chain, handlerSends, timersAllocated,
                       callee>>

\* withTimeout(() => fn(msg, ctx), this._timeoutMs, ...) and the await
StartRace(ctx) ==
    /\ responded' = ctx.responded
    /\ payloadToReturn' = ctx.payloadToReturn
    /\ timer' = IF TimerArmed(timeoutMs) THEN "pending" ELSE "none"
    /\ timersAllocated' = IF TimerArmed(timeoutMs)
                          THEN timersAllocated + 1 ELSE timersAllocated
    /\ race' = Pending
    /\ hpc' = "queued"
    /\ dpc' = "awaiting"
    /\ UNCHANGED <<chain, promise, sendHistory, handlerSends, deliveries,
                   invocations>>

\* !msg || typeof msg !== "object"
MsgNotObject(m) == Falsy(m) \/ ~TypeofObject(m)

\* the guard !type || typeof type !== "string", a mutation that lets the
\* empty string through
TypeNotString_AllowsEmpty(m) == Get(m, "type").t # "string"

\* typeof type !== "string" || !type
TypeNotString(m) == Get(m, "type").t # "string" \/ Falsy(Get(m, "type"))

\* the signal of a new AbortController, a mutation that hands out a signal
\* that is aborted already
NewSignal_Aborted(available) == IF available THEN "aborted" ELSE "undefined"

\* controller?.signal, for controller = new AbortController() or null
NewSignal(available) == IF available THEN "active" ELSE "undefined"

DispatchCall(m) ==
    /\ dpc = "idle"
    /\ HandlerMayRun
    /\ msg' = m
    /\ UNCHANGED <<config, peer>>
    /\ IF MsgNotObject(m)
       THEN ReturnInvalid(freezeNormalized(InvalidMsg))
       ELSE IF TypeNotString(m)
       THEN ReturnInvalid(freezeNormalized(InvalidType))
       ELSE LET ctx == [responded |-> FALSE,
                        payloadToReturn |-> freezeNormalized(NoResponse)]
                f == HandlersGet(handlers, Get(m, "type").s)
            IN  /\ signal' = NewSignal(hasAbortController)
                /\ fn' = f
                /\ IF Falsy(f) THEN RouteUnknown(m, ctx) ELSE StartRace(ctx)

\* dispatch(msg, sender), called by the application
Dispatch(m) == DispatchCall(m) /\ UNCHANGED listener

\* ------------------------------------------------------------------------
\* The handler
\* ------------------------------------------------------------------------

\* the outcome of Promise.resolve().then(fn) is passed on: to the
\* resolveWithCleanup / rejectWithCleanup reactions when a timer was armed,
\* to the awaited promise itself otherwise
PassOn(kind, v) ==
    IF timer = "none"
    THEN /\ race' = Settle(race, IF kind = "ret" THEN Fulfilled(v) ELSE Rejected(v))
         /\ chain' = chain
    ELSE /\ chain' = [k |-> kind, v |-> v]
         /\ UNCHANGED race

\* a thunk that looks the handler up when it runs
ThunkTarget_Late == HandlersGet(handlers, MsgType)

\* the function the thunk () => fn(msg, ctx) calls: the captured const fn
ThunkTarget == fn

\* the microtask that calls fn(msg, ctx)
HandlerStart ==
    /\ hpc = "queued"
    /\ callee' = ThunkTarget
    /\ IF isFn(ThunkTarget)
       THEN /\ hpc' = "running"
            /\ UNCHANGED <<race, chain>>
       ELSE /\ hpc' = "threw"
            /\ PassOn("thr", NewError("fn is not a function"))
    /\ UNCHANGED <<outside, dpc, msg, ctxVars, signal, fn, timer, promise,
                   sendHistory, handlerSends, timersAllocated, deliveries,
                   collabCalls>>

\* the handler, or a callback it left behind, calls ctx.send(payload)
HandlerSend(payload) ==
    /\ hpc \in {"running", "returned", "threw"}
    /\ isFn(fn)
    /\ HandlerMayRun
    /\ handlerSends < MaxSends
    /\ handlerSends' = handlerSends + 1
    /\ Send(Ctx, <<Call(payload, "handler")>>)
    /\ UNCHANGED <<outside, dpc, msg, signal, fn, timer, race, hpc, chain,
                   promise, timersAllocated, deliveries, invocations>>

\* the handler returns v (or the promise it returned resolves with v)
HandlerReturn(v) ==
    /\ hpc = "running"
    /\ HandlerMayRun
    /\ hpc' = "returned"
    /\ PassOn("ret", v)
    /\ UNCHANGED <<outside, dpc, msg, ctxVars, signal, fn, timer, promise,
                   sendHistory, handlerSends, timersAllocated, deliveries,
                   invocations>>

\* the handler throws e (or the promise it returned rejects with e)
HandlerThrow(e) ==
    /\ hpc = "running"
    /\ HandlerMayRun
    /\ hpc' = "threw"
    /\ PassOn("thr", e)
    /\ UNCHANGED <<outside, dpc, msg, ctxVars, signal, fn, timer, promise,
                   sendHistory, handlerSends, timersAllocated, deliveries,
                   invocations>>

\* the handler waits for something that never happens
HandlerHang ==
    /\ hpc = "running"
    /\ HandlerMayRun
    /\ hpc' = "hung"
    /\ UNCHANGED <<outside, dpc, msg, ctxVars, signal, fn, timer, race, chain,
                   promise, sendHistory, handlerSends, timersAllocated,
                   deliveries, invocations>>

\* ------------------------------------------------------------------------
\* The race of withTimeout
\* ------------------------------------------------------------------------

\* .then(resolveWithCleanup)
ResolveWithCleanup ==
    /\ chain.k = "ret"
    /\ timer' = resolveWithCleanup(timer, race, chain.v).timer
    /\ race' = resolveWithCleanup(timer, race, chain.v).race
    /\ chain' = NoChain
    /\ UNCHANGED <<outside, dpc, msg, ctxVars, signal, fn, hpc, promise,
                   sendHistory, handlerSends, timersAllocated, deliveries,
                   invocations>>

\* .catch(rejectWithCleanup)
RejectWithCleanup ==
    /\ chain.k = "thr"
    /\ timer' = rejectWithCleanup(timer, race, chain.v).timer
    /\ race' = rejectWithCleanup(timer, race, chain.v).race
    /\ chain' = NoChain
    /\ UNCHANGED <<outside, dpc, msg, ctxVars, signal, fn, hpc, promise,
                   sendHistory, handlerSends, timersAllocated, deliveries,
                   invocations>>

\* the deadline: setTimeout(() => rejectWithCleanup(makeTimeoutError()), ms);
\* a timer callback runs only when the microtask queue is empty
TimerFire ==
    /\ timer = "pending"
    /\ ~MicrotaskPending
    /\ timer' = rejectWithCleanup("fired", race, onTimeout(MsgType, timeoutMs)).timer
    /\ race' = rejectWithCleanup("fired", race, onTimeout(MsgType, timeoutMs)).race
    /\ UNCHANGED <<outside, dpc, msg, ctxVars, signal, fn, hpc, chain, promise,
                   sendHistory, handlerSends, timersAllocated, deliveries,
                   invocations>>

\* ------------------------------------------------------------------------
\* _dispatch, after its await
\* ------------------------------------------------------------------------

\* the synthesized error without the handler's type
NoResponseFrom_NoType(type) ==
    Obj([ok |-> Bool(FALSE), error |-> Str("No response")])

NoResponseFrom(type) ==
    Obj([ok |-> Bool(FALSE),
         error |-> Str("Handler " \o type \o " returned no response")])

\* the try block with the test `!responded && maybeReturn`, a mutation that
\* takes a falsy return value for no return value
TryCalls_Truthy(ctx, maybeReturn) ==
    LET first == IF ~ctx.responded /\ ~Falsy(maybeReturn)
                 THEN <<Call(maybeReturn, "return")>> ELSE <<>>
        after == ctxSendAll(ctx, first)
    IN  first \o (IF ~after.responded
                  THEN <<Call(NoResponseFrom(MsgType), "noresponse")>>
                  ELSE <<>>)

\* the try block after the await, in a dispatch of a message of the given
\* type: the calls of ctx.send it makes
TryCallsFor(type, ctx, maybeReturn) ==
    LET first == IF ~ctx.responded /\ maybeReturn # Undef
                 THEN <<Call(maybeReturn, "return")>> ELSE <<>>
        after == ctxSendAll(ctx, first)
    IN  first \o (IF ~after.responded
                  THEN <<Call(NoResponseFrom(type), "noresponse")>>
                  ELSE <<>>)

\* the try block after the await: the calls of ctx.send it makes
TryCalls(ctx, maybeReturn) == TryCallsFor(MsgType, ctx, maybeReturn)

\* try { ... } finally { controller.abort() }; return payloadToReturn
ResumeFulfilled ==
    /\ race.state = "fulfilled"
    /\ Send(Ctx, TryCalls(Ctx, race.v))
    /\ signal' = Abort(signal)
    /\ promise' = Settle(promise, Fulfilled(payloadToReturn'))
    /\ deliveries' = deliveries + 1
    /\ UNCHANGED collabCalls

\* a catch block that calls onError whether or not a response was sent
ResumeRejected_Always ==
    /\ race.state = "rejected"
    /\ signal' = Abort(signal)
    /\ LET out == CallOnError(onError, race.v)
       IN  /\ collabCalls' = [collabCalls EXCEPT !.onError = @ + 1]
           /\ IF out.threw
              THEN /\ UNCHANGED <<ctxVars, sendHistory>>
                   /\ promise' = Settle(promise, Rejected(out.v))
                   /\ deliveries' = deliveries
              ELSE /\ Send(Ctx, <<Call(out.v, "onError")>>)
                   /\ promise' = Settle(promise, Fulfilled(payloadToReturn'))
                   /\ deliveries' = deliveries + 1

\* catch (err) { ... } finally { controller.abort() }; return payloadToReturn
ResumeRejected ==
    /\ race.state = "rejected"
    /\ signal' = Abort(signal)
    /\ IF responded
       THEN /\ UNCHANGED <<ctxVars, sendHistory, collabCalls>>
            /\ promise' = Settle(promise, Fulfilled(payloadToReturn))
            /\ deliveries' = deliveries + 1
       ELSE LET out == CallOnError(onError, race.v)
            IN  /\ collabCalls' = [collabCalls EXCEPT !.onError = @ + 1]
                /\ IF out.threw
                   THEN /\ UNCHANGED <<ctxVars, sendHistory>>
                        /\ promise' = Settle(promise, Rejected(out.v))
                        /\ deliveries' = deliveries
                   ELSE /\ Send(Ctx, <<Call(out.v, "onError")>>)
                        /\ promise' = Settle(promise, Fulfilled(payloadToReturn'))
                        /\ deliveries' = deliveries + 1

\* the continuation of `await withTimeout(...)`
DispatchResume ==
    /\ dpc = "awaiting"
    /\ race.state # "pending"
    /\ dpc' = "done"
    /\ (ResumeFulfilled \/ ResumeRejected)
    /\ UNCHANGED <<outside, msg, fn, timer, race, hpc, chain, handlerSends,
                   timersAllocated, callee>>

\* ------------------------------------------------------------------------
\* Specification
\* ------------------------------------------------------------------------

HandlerCompletes ==
    \/ \E v \in ReturnValues : HandlerReturn(v)
    \/ \E e \in ThrownValues : HandlerThrow(e)
    \/ HandlerHang

Next ==
    \/ \E m \in Messages : Dispatch(m)
    \/ HandlerStart
    \/ \E p \in SendPayloads : HandlerSend(p)
    \/ \E v \in ReturnValues : HandlerReturn(v)
    \/ \E e \in ThrownValues : HandlerThrow(e)
    \/ HandlerHang
    \/ ResolveWithCleanup
    \/ RejectWithCleanup
    \/ TimerFire
    \/ DispatchResume

Spec == Init /\ [][Next]_vars

\* the event loop runs every queued microtask and every armed timer; a
\* handler that is not waiting forever (HandlerHang) ends
FairSpec ==
    /\ Spec
    /\ WF_vars(HandlerStart)
    /\ WF_vars(HandlerCompletes)
    /\ WF_vars(ResolveWithCleanup)
    /\ WF_vars(RejectWithCleanup)
    /\ WF_vars(TimerFire)
    /\ WF_vars(DispatchResume)

\* ------------------------------------------------------------------------
\* A second dispatch on the same HermesHandler
\*
\* Each call of _dispatch has its own responded, payloadToReturn, controller
\* and, in withTimeout, its own timerId and promise: the second call's are
\* the fields of peer.  Its steps are those of the first call, on its own
\* closure; this._handlers and the options are the ones of the one instance.
\* ------------------------------------------------------------------------

\* a second call whose ctx.send works on the first call's variables, as it
\* would if responded and payloadToReturn were kept on the instance
PeerCtx_Shared == Ctx

\* the variables of the second call's closure
PeerCtx == [responded |-> peer.responded,
            payloadToReturn |-> peer.payloadToReturn]

\* the second call's msg.type
PeerMsgType == Get(peer.msg, "type").s

\* the calls of ctx.send in `calls` are made, in order, on the second call's
\* closure ctx
PeerSend(p, ctx, calls) ==
    [p EXCEPT !.responded = ctxSendAll(ctx, calls).responded,
              !.payloadToReturn = ctxSendAll(ctx, calls).payloadToReturn,
              !.sendCalls = @ + Len(calls),
              !.firstPayload = IF p.sendCalls = 0 /\ calls # <<>>
                               THEN calls[1].payload ELSE @]

\* the outcome of the second call's Promise.resolve().then(fn) is passed on
PeerPassOn(p, kind, v) ==
    IF p.timer = "none"
    THEN [p EXCEPT !.race = Settle(@, IF kind = "ret" THEN Fulfilled(v)
                                                      ELSE Rejected(v))]
    ELSE [p EXCEPT !.chain = [k |-> kind, v |-> v]]

\* _dispatch(m), up to its await or its return
PeerDispatch(m) ==
    /\ peer.dpc = "idle"
    /\ HandlerMayRun
    /\ peer' =
         IF MsgNotObject(m)
         THEN [peer EXCEPT !.msg = m, !.dpc = "done",
                           !.promise = Fulfilled(freezeNormalized(InvalidMsg))]
         ELSE IF TypeNotString(m)
         THEN [peer EXCEPT !.msg = m, !.dpc = "done",
                           !.promise = Fulfilled(freezeNormalized(InvalidType))]
         ELSE LET ctx == [responded |-> FALSE,
                          payloadToReturn |-> freezeNormalized(NoResponse)]
                  f == HandlersGet(handlers, Get(m, "type").s)
                  called == [peer EXCEPT !.msg = m,
                                         !.signal = NewSignal(hasAbortController),
                                         !.fn = f,
                                         !.responded = ctx.responded,
                                         !.payloadToReturn = ctx.payloadToReturn]
                  out == CallOnUnknown(onUnknown, m)
                  sent == PeerSend(called, ctx, <<Call(out.v, "onUnknown")>>)
              IN  IF Falsy(f)
                  THEN IF out.threw
                       THEN [called EXCEPT !.dpc = "done",
                                           !.promise = Rejected(out.v)]
                       ELSE [sent EXCEPT !.dpc = "done",
                                         !.promise = Fulfilled(sent.payloadToReturn)]
                  ELSE [called EXCEPT
                           !.timer = IF TimerArmed(timeoutMs)
                                     THEN "pending" ELSE "none",
                           !.race = Pending,
                           !.hpc = "queued",
                           !.dpc = "awaiting"]
    /\ UNCHANGED <<config, inFlight, listener>>

\* the microtask that calls the second call's fn(msg, ctx)
PeerHandlerStart ==
    /\ peer.hpc = "queued"
    /\ peer' = IF isFn(peer.fn)
               THEN [peer EXCEPT !.hpc = "running"]
               ELSE PeerPassOn([peer EXCEPT !.hpc = "threw"], "thr",
                               NewError("fn is not a function"))
    /\ UNCHANGED <<config, inFlight, listener>>

\* the second call's handler calls ctx.send(payload)
PeerHandlerSend(payload) ==
    /\ peer.hpc \in {"running", "returned", "threw"}
    /\ isFn(peer.fn)
    /\ HandlerMayRun
    /\ peer.handlerSends < MaxSends
    /\ peer' = [PeerSend(peer, PeerCtx, <<Call(payload, "handler")>>)
                   EXCEPT !.handlerSends = @ + 1]
    /\ UNCHANGED <<config, inFlight, listener>>

PeerHandlerReturn(v) ==
    /\ peer.hpc = "running"
    /\ HandlerMayRun
    /\ peer' = PeerPassOn([peer EXCEPT !.hpc = "returned"], "ret", v)
    /\ UNCHANGED <<config, inFlight, listener>>

PeerHandlerThrow(e) ==
    /\ peer.hpc = "running"
    /\ HandlerMayRun
    /\ peer' = PeerPassOn([peer EXCEPT !.hpc = "threw"], "thr", e)
    /\ UNCHANGED <<config, inFlight, listener>>

PeerHandlerHang ==
    /\ peer.hpc = "running"
    /\ HandlerMayRun
    /\ peer' = [peer EXCEPT !.hpc = "hung"]
    /\ UNCHANGED <<config, inFlight, listener>>

PeerResolveWithCleanup ==
    /\ peer.chain.k = "ret"
    /\ peer' = [peer EXCEPT
          !.timer = resolveWithCleanup(peer.timer, peer.race, peer.chain.v).timer,
          !.race = resolveWithCleanup(peer.timer, peer.race, peer.chain.v).race,
          !.chain = NoChain]
    /\ UNCHANGED <<config, inFlight, listener>>

PeerRejectWithCleanup ==
    /\ peer.chain.k = "thr"
    /\ peer' = [peer EXCEPT
          !.timer = rejectWithCleanup(peer.timer, peer.race, peer.chain.v).timer,
          !.race = rejectWithCleanup(peer.timer, peer.race, peer.chain.v).race,
          !.chain = NoChain]
    /\ UNCHANGED <<config, inFlight, listener>>

\* the second call's deadline
PeerTimerFire ==
    /\ peer.timer = "pending"
    /\ ~MicrotaskPending
    /\ peer' = [peer EXCEPT
          !.timer = rejectWithCleanup("fired", peer.race,
                                      onTimeout(PeerMsgType, timeoutMs)).timer,
          !.race = rejectWithCleanup("fired", peer.race,
                                     onTimeout(PeerMsgType, timeoutMs)).race]
    /\ UNCHANGED <<config, inFlight, listener>>

\* the continuation of the second call's `await withTimeout(...)`
PeerDispatchResume ==
    /\ peer.dpc = "awaiting"
    /\ peer.race.state # "pending"
    /\ peer' =
         LET aborted == [peer EXCEPT !.dpc = "done", !.signal = Abort(@)]
             tried == PeerSend(aborted, PeerCtx,
                               TryCallsFor(PeerMsgType, PeerCtx, peer.race.v))
             out == CallOnError(onError, peer.race.v)
             caught == PeerSend(aborted, PeerCtx, <<Call(out.v, "onError")>>)
         IN  IF peer.race.state = "fulfilled"
             THEN [tried EXCEPT
                      !.promise = Settle(@, Fulfilled(tried.payloadToReturn))]
             ELSE IF peer.responded
             THEN [aborted EXCEPT
                      !.promise = Settle(@, Fulfilled(aborted.payloadToReturn))]
             ELSE IF out.threw
             THEN [aborted EXCEPT !.promise = Settle(@, Rejected(out.v))]
             ELSE [caught EXCEPT
                      !.promise = Settle(@, Fulfilled(caught.payloadToReturn))]
    /\ UNCHANGED <<config, inFlight, listener>>

\* what the two calls' handlers send, return and throw
TwoSendPayloads == {Str("first"), Obj([ok |-> Bool(FALSE), error |-> Str("")])}

TwoReturnValues == {Undef, Str("pong")}

TwoThrownValues == {NewError("boom")}

PeerSendPayloads == {Str("peer first"), Obj([ok |-> Bool(TRUE), extra |-> Num(2)])}

PeerReturnValues == {Undef, Str("peer pong")}

\* two interleaved dispatches on a dispatcher constructed with the default
\* options
TwoInit ==
    /\ Init
    /\ timeoutMs = Num(DefaultTimeoutMs)
    /\ onUnknown = Default /\ onError = Default
    /\ hasAbortController

TwoNext ==
    \/ \E m \in RegMessages : Dispatch(m)
    \/ HandlerStart
    \/ \E payload \in TwoSendPayloads : HandlerSend(payload)
    \/ \E v \in TwoReturnValues : HandlerReturn(v)
    \/ \E e \in TwoThrownValues : HandlerThrow(e)
    \/ HandlerHang
    \/ ResolveWithCleanup
    \/ RejectWithCleanup
    \/ TimerFire
    \/ DispatchResume
    \/ \E m \in RegMessages : PeerDispatch(m)
    \/ PeerHandlerStart
    \/ \E payload \in PeerSendPayloads : PeerHandlerSend(payload)
    \/ \E v \in PeerReturnValues : PeerHandlerReturn(v)
    \/ \E e \in TwoThrownValues : PeerHandlerThrow(e)
    \/ PeerHandlerHang
    \/ PeerResolveWithCleanup
    \/ PeerRejectWithCleanup
    \/ PeerTimerFire
    \/ PeerDispatchResume

TwoSpec == TwoInit /\ [][TwoNext]_vars

\* ------------------------------------------------------------------------
\* Assignments to a delivered envelope
\* ------------------------------------------------------------------------

\* o[k] = v: without effect on a frozen object and on a value that is not an
\* object
AssignField(o, k, v) ==
    IF o.t # "object" \/ o.frozen
    THEN o
    ELSE [o EXCEPT !.f = [x \in DOMAIN o.f \cup {k} |->
                             IF x = k THEN v ELSE o.f[x]]]

\* the names and the value that the holder of an envelope assigns
AssignedKeys == {"ok", "result", "error", "info", "handlerInfo", "extra"}

AssignedValue == Str("assigned")

\* envelope[k] = v, or envelope.info[k] = v, by the holder of the envelope
\* that the dispatch resolved with; payloadToReturn is the same object
AssignToEnvelope(inInfo, k, v) ==
    /\ promise.state = "fulfilled"
    /\ HandlerMayRun
    /\ LET envelope == promise.v
           after == IF ~inInfo
                    THEN AssignField(envelope, k, v)
                    ELSE IF In("info", envelope)
                    THEN [envelope EXCEPT
                             !.f["info"] = AssignField(@, k, v)]
                    ELSE envelope
       IN  /\ promise' = [promise EXCEPT !.v = after]
           /\ payloadToReturn' = IF payloadToReturn = envelope
                                 THEN after ELSE payloadToReturn
    /\ UNCHANGED <<outside, dpc, msg, responded, signal, fn, timer, race, hpc,
                   chain, sendHistory, handlerSends, timersAllocated,
                   deliveries, invocations>>

\* a dispatch followed by assignments to its envelope, on a dispatcher with
\* the default timeout and the default onUnknown
FreezeInit ==
    /\ Init
    /\ timeoutMs = Num(DefaultTimeoutMs)
    /\ onUnknown = Default
    /\ hasAbortController

FreezeNext ==
    \/ Next
    \/ \E inInfo \in BOOLEAN, k \in AssignedKeys :
          AssignToEnvelope(inInfo, k, AssignedValue)

FreezeSpec == FreezeInit /\ [][FreezeNext]_vars

\* a dispatch on a dispatcher whose onUnknown returns any of the values that
\* a handler returns
UnknownOptions == {Returns(v) : v \in ReturnValues}

UnknownInit ==
    /\ handlers \in InitialHandlerOptions
    /\ timeoutMs = Num(DefaultTimeoutMs)
    /\ onUnknown \in UnknownOptions
    /\ onError = Default
    /\ hasAbortController = TRUE
    /\ NothingDispatched

UnknownSpec == UnknownInit /\ [][Next]_vars

\* the registry operations interleaved with a dispatch, on a dispatcher
\* constructed with the default options
RegInit ==
    /\ Init
    /\ timeoutMs = Num(DefaultTimeoutMs)
    /\ onUnknown = Default /\ onError = Default
    /\ hasAbortController

RegNext ==
    \/ \E m \in RegMessages : Dispatch(m)
    \/ HandlerStart
    \/ \E v \in RegReturnValues : HandlerReturn(v)
    \/ HandlerHang
    \/ ResolveWithCleanup
    \/ RejectWithCleanup
    \/ TimerFire
    \/ DispatchResume
    \/ \E type \in RegTypes, f \in RegValues : Register(type, f)
    \/ \E entries \in RegMaps : RegisterMany(entries)
    \/ \E type \in RegTypes : Unregister(type)

RegSpec == RegInit /\ [][RegNext]_vars

TypeOK ==
    /\ dpc \in {"idle", "awaiting", "done"}
    /\ responded \in BOOLEAN
    /\ signal \in {"undefined", "active", "aborted"}
    /\ timer \in {"none", "pending", "fired", "cleared"}
    /\ hpc \in {"notcalled", "queued", "running", "returned", "threw", "hung"}
    /\ race.state \in {"pending", "fulfilled", "rejected"}
    /\ promise.state \in {"pending", "fulfilled", "rejected"}
    /\ chain.k \in {"none", "ret", "thr"}

\* ------------------------------------------------------------------------
\* Properties
\* ------------------------------------------------------------------------

\* the dispatch passed validation: the context was built
Validated == dpc # "idle" /\ ~Falsy(msg) /\ TypeofObject(msg)
                 /\ Get(msg, "type").t = "string" /\ ~Falsy(Get(msg, "type"))

\* the dispatch promise is fulfilled: dispatch resolved with an envelope
Resolved == promise.state = "fulfilled"

\* C1: the promise returned by dispatch never rejects, whatever the message,
\* the handler and the collaborators do.
C1_NeverRejects == promise.state # "rejected"

\* C2: when a dispatch that passed validation has resolved, on any outcome
\* branch (handler succeeded, threw, timed out, or type not in the registry),
\* the cancellation signal of its context has been aborted.
C2_AbortedWhenResolved ==
    (Validated /\ Resolved /\ signal # "undefined") => signal = "aborted"

\* C3: first response wins.  The stored response, and the envelope the
\* dispatch resolves with, is the normalization of the argument of the first
\* call of ctx.send; once a response is stored no later call of ctx.send and
\* no return value changes it; the return value is sent only when it is not
\* undefined and ctx.send was not called before.
C3_FirstResponseWins ==
    /\ []((Validated /\ sendCalls > 0) =>
              payloadToReturn = freezeNormalized(firstPayload))
    /\ []((Validated /\ Resolved) =>
              sendCalls > 0 /\ promise.v = freezeNormalized(firstPayload))
    /\ [][responded => UNCHANGED ctxVars]_vars
    /\ [][(respondedBy = "none" /\ respondedBy' = "return") =>
              (~responded /\ race.v # Undef /\ firstPayload' = race.v)]_vars

\* C3 witness: the handler called ctx.send twice and then returned a value;
\* the dispatch resolved with the first payload.
C3_Witness ==
    /\ Resolved
    /\ handlerSends = 2
    /\ sendCalls = 2
    /\ hpc = "returned"
    /\ race.state = "fulfilled"
    /\ race.v = Str("pong")
    /\ firstPayload = Str("first")
    /\ promise.v = ObjectFreeze(Obj([ok |-> Bool(TRUE), result |-> Str("first")]))

\* the envelope of a timeout under the default error collaborator
TimeoutEnvelope ==
    ObjectFreeze(Obj([ok |-> Bool(FALSE),
                      error |-> Str("Handler " \o MsgType \o " timed out ("
                                      \o ToString(timeoutMs.n) \o " ms)")]))

\* C4 as stated: whenever the deadline fired before the handler completed,
\* dispatch with the default error collaborator resolves to the timeout
\* envelope.
C4_TimeoutAlways ==
    (timer = "fired" /\ onError = Default /\ dpc = "done") =>
        (Resolved /\ promise.v = TimeoutEnvelope)

\* C4 amended: whenever the deadline fired before the handler completed and
\* before the handler called ctx.send, dispatch with the default error
\* collaborator resolves to {ok:false, error:"Handler <type> timed out
\* (<timeoutMs> ms)"}, and keeps that envelope while the handler goes on.
C4_TimeoutUnlessSent ==
    (timer = "fired" /\ onError = Default /\ dpc = "done"
        /\ respondedBy # "handler") =>
        (Resolved /\ promise.v = TimeoutEnvelope)

\* C4 witness: the deadline fired, the dispatch resolved with the timeout
\* envelope, and the handler returned afterwards.
C4_Witness ==
    /\ timer = "fired"
    /\ onError = Default
    /\ timeoutMs = Num(10)
    /\ hpc = "returned"
    /\ chain = NoChain
    /\ Resolved
    /\ promise.v = ObjectFreeze(Obj([ok |-> Bool(FALSE),
                       error |-> Str("Handler ping timed out (10 ms)")]))

\* C5: once the dispatch has resolved, nothing the handler still does
\* (ctx.send, return, throw) changes the delivered envelope, the stored
\* response, or the settled race, and the dispatch does not settle again.
C5_ZombieHarmless ==
    [][Resolved => (/\ promise' = promise
                    /\ deliveries' = deliveries
                    /\ UNCHANGED ctxVars
                    /\ race' = race)]_vars

\* C5 witness: the dispatch resolved on the timeout; afterwards the handler
\* called ctx.send twice and threw, and rejectWithCleanup ran.
C5_Witness ==
    /\ Resolved
    /\ timer = "fired"
    /\ respondedBy = "onError"
    /\ handlerSends = 2
    /\ sendCalls = 3
    /\ hpc = "threw"
    /\ chain = NoChain
    /\ deliveries = 1

\* timeoutMs is a positive finite number
PositiveFinite(ms) == ms.t = "number" /\ ms # Infinity /\ ms.n > 0

\* C6: with a positive finite timeoutMs every dispatch that waits for its
\* handler eventually resolves, even when the handler never completes.
C6_EventuallyResolves ==
    (dpc = "awaiting" /\ PositiveFinite(timeoutMs)) ~> Resolved

IsErr(envelope) ==
    /\ envelope.t = "object"
    /\ Get(envelope, "ok") = Bool(FALSE)
    /\ Get(envelope, "error").t = "string"

\* the continuation of the await runs on a failed race (the handler threw or
\* the deadline fired) while no response was sent
FailsUnanswered ==
    dpc = "awaiting" /\ dpc' = "done" /\ race.state = "rejected" /\ ~responded

\* C8 as stated: when the handler throws or the timeout fires before any
\* response was sent, dispatch resolves to an envelope with ok:false and a
\* string error, whatever value the error collaborator returns.
C8_ErrWhateverReturned ==
    [][(FailsUnanswered /\ onError.kind # "throws") =>
           (promise'.state = "fulfilled" /\ IsErr(promise'.v))]_vars

\* C8 amended: when the handler throws or the timeout fires before any
\* response was sent, and the error collaborator is the default one or
\* returns an object {ok:false, error:<string>}, dispatch resolves to an
\* envelope with ok:false and a string error.
C8_ErrWhenWellFormed ==
    [][(FailsUnanswered
          /\ (onError = Default \/ (onError.kind = "returns" /\ IsErr(onError.v)))) =>
           (promise'.state = "fulfilled" /\ IsErr(promise'.v))]_vars

\* C8 witness: the handler threw a non-Error value before any response and
\* the default collaborator turned it into an error envelope.
C8_Witness ==
    /\ onError = Default
    /\ hpc = "threw"
    /\ race = Rejected(Obj([message |-> Num(3)]))
    /\ respondedBy = "onError"
    /\ Resolved
    /\ promise.v = ObjectFreeze(Obj([ok |-> Bool(FALSE),
                                     error |-> Str("[object Object]")]))

\* C9: every envelope with ok:false that dispatch returns carries an error
\* that is a non-empty string.
C9_NonEmptyError ==
    (Resolved /\ Get(promise.v, "ok") = Bool(FALSE)) =>
        (Get(promise.v, "error").t = "string" /\ Get(promise.v, "error").s # "")

\* C10: a dispatch allocates at most one deadline timer, and exactly one when
\* withTimeout is called with a positive finite timeoutMs; once the race has
\* settled (handler returned, handler threw, deadline fired) the timer is not
\* pending; a settled race does not change.
C10_TimerDiscipline ==
    /\ [](timersAllocated <= 1)
    /\ []((timersAllocated = 1) <=>
             (hpc # "notcalled" /\ PositiveFinite(timeoutMs)))
    /\ []((timer # "none") <=> (timersAllocated = 1))
    /\ [](race.state # "pending" => timer # "pending")
    /\ [][race.state # "pending" => race' = race]_vars

\* C10 witness: the handler returned before the deadline, resolveWithCleanup
\* cleared the one timer and settled the race.
C10_Witness ==
    /\ timersAllocated = 1
    /\ timer = "cleared"
    /\ hpc = "returned"
    /\ chain = NoChain
    /\ race = Fulfilled(Str("pong"))


\* the handler's execution window is open: fn was handed to the race and has
\* neither returned nor thrown, and the deadline has not passed
WindowOpen == dpc = "awaiting" /\ hpc \in {"queued", "running", "hung"}
                  /\ timer # "fired"

\* C11: the cancellation signal of a dispatch is triggered exactly once, and
\* only after the handler's execution window has closed.  While the handler is
\* inside its window the signal is not aborted; the signal becomes aborted in
\* one step only, the continuation of the await, which a dispatch runs once;
\* an aborted signal stays aborted; and once a dispatch that ran a handler is
\* done, its signal is aborted.
C11_AbortAfterWindow ==
    /\ [](WindowOpen => signal # "aborted")
    /\ []((dpc = "done" /\ hpc # "notcalled" /\ hasAbortController)
              => signal = "aborted")
    /\ [][/\ signal = "aborted" => signal' = "aborted"
          /\ (signal # "aborted" /\ signal' = "aborted")
                 => (dpc = "awaiting" /\ dpc' = "done" /\ ~WindowOpen)]_vars

\* a handler returned with the signal still active, and the dispatch then
\* aborted it
C11_Witness == /\ dpc = "done" /\ hpc = "returned" /\ signal = "aborted"
               /\ timer = "cleared"


\* a primitive value of the language
IsPrimitive(v) == v.t \in {"undefined", "null", "string", "number", "boolean"}

\* the await of a handler's return value continues, and the handler has not
\* called send: the handler returned within the timeout
ResumesUnanswered ==
    /\ dpc = "awaiting" /\ dpc' = "done"
    /\ race.state = "fulfilled" /\ ~responded

\* C12 as stated: whenever a registered handler returns a primitive value v
\* without calling send and within the timeout, dispatch resolves to
\* {ok: true, result: v}.
C12_PrimitiveWrapped ==
    [][(ResumesUnanswered /\ IsPrimitive(race.v))
          => promise' = Fulfilled(ObjectFreeze(Obj([ok |-> Bool(TRUE),
                                                    result |-> race.v])))]_vars

\* C12 amended: whenever a registered handler returns a primitive value v
\* other than undefined without calling send and within the timeout, dispatch
\* resolves to {ok: true, result: v}; this includes null and the falsy
\* primitives.
C12_DefinedPrimitiveWrapped ==
    [][(ResumesUnanswered /\ IsPrimitive(race.v) /\ race.v # Undef)
          => promise' = Fulfilled(ObjectFreeze(Obj([ok |-> Bool(TRUE),
                                                    result |-> race.v])))]_vars

\* a handler returned false and the dispatch resolved to {ok: true,
\* result: false}
C12_Witness ==
    /\ dpc = "done" /\ hpc = "returned" /\ respondedBy = "return"
    /\ firstPayload = Bool(FALSE)
    /\ promise = Fulfilled(ObjectFreeze(Obj([ok |-> Bool(TRUE),
                                             result |-> Bool(FALSE)])))


\* the envelope of the default onUnknown, for a message of the given type
UnknownTypeEnvelope(type) ==
    ObjectFreeze(Obj([ok |-> Bool(FALSE),
                      error |-> Str("Unknown msg.type: " \o type)]))

\* the registered types, as a set
Registered == {handlers[i].type : i \in 1..Len(handlers)}

\* C13: a dispatch of a valid message whose type is absent from the registry
\* at the time of the call, under the default onUnknown, resolves within the
\* call to {ok: false, error: "Unknown msg.type: <type>"}; no handler is
\* invoked and no timer is started.
C13_UnknownType ==
    [][(/\ dpc = "idle" /\ dpc' # "idle"
        /\ ~MsgNotObject(msg') /\ ~TypeNotString(msg')
        /\ Get(msg', "type").s \notin Registered
        /\ onUnknown = Default)
          => /\ dpc' = "done"
             /\ promise' = Fulfilled(UnknownTypeEnvelope(Get(msg', "type").s))
             /\ hpc' = "notcalled" /\ callee' = Undef
             /\ timersAllocated' = 0]_vars

\* a message of an unregistered type was answered by the default onUnknown,
\* on a dispatcher that has a handler for another type
C13_Witness ==
    /\ dpc = "done" /\ Validated /\ MsgType \notin Registered
    /\ Registered # {} /\ onUnknown = Default
    /\ respondedBy = "onUnknown" /\ collabCalls.onUnknown = 1
    /\ promise = Fulfilled(UnknownTypeEnvelope("nope"))


\* the handler's execution ended normally with undefined and it never called
\* send
ReturnedNothing ==
    /\ hpc = "returned" /\ handlerSends = 0
    /\ (chain = [k |-> "ret", v |-> Undef] \/ race = Fulfilled(Undef))

\* C14 as stated: when a registered handler's execution ends normally with
\* undefined (directly or through a resolved promise) and send was never
\* called, the dispatch has resolved to {ok: false, error: "Handler <type>
\* returned no response"}, whenever that end comes.
C14_NoResponseWhenever ==
    (dpc = "done" /\ ReturnedNothing)
        => promise = Fulfilled(ObjectFreeze(Obj(
               [ok |-> Bool(FALSE),
                error |-> Str("Handler " \o MsgType
                                 \o " returned no response")])))

\* C14 amended: when a registered handler's execution ends normally with
\* undefined before the deadline, and send was not called by then, dispatch
\* resolves to {ok: false, error: "Handler <type> returned no response"}.
C14_NoResponse ==
    [][(ResumesUnanswered /\ race.v = Undef)
          => promise' = Fulfilled(ObjectFreeze(Obj(
                 [ok |-> Bool(FALSE),
                  error |-> Str("Handler " \o Get(msg, "type").s
                                   \o " returned no response")])))]_vars

\* a handler returned undefined without a send, and the dispatch resolved with
\* the synthesized error
C14_Witness ==
    /\ dpc = "done" /\ hpc = "returned" /\ race = Fulfilled(Undef)
    /\ handlerSends = 0 /\ respondedBy = "noresponse"
    /\ promise = Fulfilled(ObjectFreeze(Obj(
           [ok |-> Bool(FALSE),
            error |-> Str("Handler ping returned no response")])))


\* the message is null or not an object, or its type is missing, not a string
\* or the empty string
Malformed(m) ==
    \/ m.t # "object"
    \/ "type" \notin DOMAIN m.f
    \/ m.f["type"].t # "string"
    \/ m.f["type"].s = ""

\* the string s starts with the string prefix
StartsWith(s, prefix) ==
    Len(s) >= Len(prefix) /\ SubSeq(s, 1, Len(prefix)) = prefix

\* C15: validation short-circuits.  For a malformed message the dispatch is
\* over within the call, resolved to an ok: false envelope whose error starts
\* with "Invalid message"; the registry was not read, no handler and no
\* collaborator was invoked, no response was sent and no timer was started.
C15_ValidationShortCircuits ==
    (dpc # "idle" /\ Malformed(msg))
        => /\ dpc = "done" /\ promise.state = "fulfilled"
           /\ Get(promise.v, "ok") = Bool(FALSE)
           /\ Get(promise.v, "error").t = "string"
           /\ StartsWith(Get(promise.v, "error").s, "Invalid message")
           /\ fn = Undef
           /\ hpc = "notcalled" /\ callee = Undef
           /\ collabCalls = [onUnknown |-> 0, onError |-> 0]
           /\ sendCalls = 0
           /\ timer = "none" /\ timersAllocated = 0

\* a message with an empty type was refused by a dispatcher whose onUnknown
\* would have thrown
C15_Witness ==
    /\ dpc = "done" /\ msg = Obj([type |-> Str("")])
    /\ onUnknown.kind = "throws"
    /\ promise = Fulfilled(freezeNormalized(InvalidType))


\* the payload is an object whose ok field is present but not a boolean
OkNotBoolean(p) == p.t = "object" /\ "ok" \in DOMAIN p.f
                       /\ p.f["ok"].t # "boolean"

\* the payload is an object with ok: false whose error is not a string
ErrorNotString(p) == /\ p.t = "object" /\ "ok" \in DOMAIN p.f
                     /\ p.f["ok"] = Bool(FALSE)
                     /\ ("error" \notin DOMAIN p.f \/ p.f["error"].t # "string")

\* C16: malformed handler output is converted, not thrown.  When the response
\* of a dispatch (the first payload to reach ctx.send, by an explicit send or
\* by the handler's return) has an ok field that is not a boolean, the
\* dispatch resolves to {ok: false, error: "Invalid response: 'ok' must be
\* boolean"}; when it has ok: false and an error that is not a string, to
\* {ok: false, error: "Invalid response: missing 'error' string"}.
C16_MalformedConverted ==
    (Resolved /\ respondedBy \in {"handler", "return"})
        => /\ OkNotBoolean(firstPayload)
                => promise = Fulfilled(ObjectFreeze(Obj(
                       [ok |-> Bool(FALSE),
                        error |-> Str("Invalid response: 'ok' must be boolean")])))
           /\ ErrorNotString(firstPayload)
                => promise = Fulfilled(ObjectFreeze(Obj(
                       [ok |-> Bool(FALSE),
                        error |-> Str("Invalid response: missing 'error' string")])))

\* a handler returned {ok: "yes"} and the dispatch resolved with the error
C16_WitnessReturn ==
    /\ dpc = "done" /\ respondedBy = "return"
    /\ firstPayload = Obj([ok |-> Str("yes")])
    /\ Resolved

\* a handler sent {ok: false, error: 5} and the dispatch resolved with the
\* error
C16_Witness ==
    /\ dpc = "done" /\ respondedBy = "handler"
    /\ firstPayload = Obj([ok |-> Bool(FALSE), error |-> Num(5)])
    /\ Resolved


\* a response object with ok: true, or with ok: false and a string error
WellFormedResponse(p) ==
    /\ p.t = "object" /\ "ok" \in DOMAIN p.f /\ p.f["ok"].t = "boolean"
    /\ (p.f["ok"] = Bool(FALSE)
            => ("error" \in DOMAIN p.f /\ p.f["error"].t = "string"))

\* the canonical fields of a response: ok and result on success, ok and error
\* on failure
CanonicalKeys(p) == IF p.f["ok"] = Bool(TRUE)
                    THEN {"ok", "result"} ELSE {"ok", "error"}

\* the name under which the extras bag keeps the field k of a response
ExtrasName(k) == IF k = "info" THEN "handlerInfo" ELSE k

\* C17: extras preservation.  When the response of a dispatch is an object
\* with ok: true, or a well-formed ok: false, every field of it outside the
\* canonical set is recoverable, with its value, from the info bag of the
\* envelope the dispatch resolves with: no field is dropped or overwritten by
\* another, whatever the combination of field names (info, handlerInfo, an
\* accidental error on ok: true, an accidental result on ok: false).
C17_ExtrasPreserved ==
    (Resolved /\ respondedBy \in {"handler", "return"}
              /\ WellFormedResponse(firstPayload))
        => \A k \in DOMAIN firstPayload.f \ CanonicalKeys(firstPayload) :
              /\ In("info", promise.v)
              /\ Get(Get(promise.v, "info"), ExtrasName(k)) = firstPayload.f[k]


\* C18: a dispatch captures its handler at the moment of the dispatch call.
\* The handler it will run is the value registered under the type when
\* dispatch is called; from then on no step changes it, the thunk calls this
\* value and no other, and a register, registerMany or unregister changes
\* nothing of the dispatch in flight: not its handler, not its response, not
\* its envelope.
C18_HandlerCaptured ==
    /\ [][(dpc = "idle" /\ dpc' = "awaiting")
             => fn' = latest[Get(msg', "type").s]]_vars
    /\ [][dpc # "idle" => fn' = fn]_vars
    /\ [](hpc \notin {"notcalled", "queued"} => callee = fn)
    /\ [][handlers' # handlers
             => UNCHANGED <<fn, callee, hpc, race, responded, payloadToReturn,
                            promise>>]_vars

\* the type was unregistered while its dispatch was in flight; the dispatch
\* ran the handler it had captured, which returned its result
C18_Witness ==
    /\ dpc = "awaiting" /\ callee = Fn("ping1") /\ ~has("ping")
    /\ hpc = "returned" /\ race = Fulfilled(Str("pong"))

\* the type was overwritten while its handler was waiting to start
C18_WitnessQueued ==
    /\ hpc = "queued" /\ fn = Fn("ping1")
    /\ HandlersGet(handlers, "ping") = Fn("ping2")


\* the elements of a sequence
Range(seq) == {seq[i] : i \in 1..Len(seq)}

\* the place where the type first occurs in the entries
FirstIndex(t, entries) ==
    CHOOSE i \in 1..Len(entries) :
        entries[i].type = t /\ \A j \in 1..(i - 1) : entries[j].type # t

\* the listing after a registry operation: the types that stay keep their
\* places relative to each other, the new ones follow them, in the order in
\* which the operation registered them
ListedInInsertionOrder(before, after, op) ==
    LET kept == SelectSeq(before, LAMBDA t : t \in Range(after))
        added == SelectSeq(after, LAMBDA t : t \notin Range(before))
    IN  /\ after = kept \o added
        /\ op.op = "register" => (Range(added) \subseteq {op.type} /\ kept = before)
        /\ op.op = "unregister" => (added = <<>> /\ op.type \notin Range(after))
        /\ op.op = "registerMany" =>
              /\ kept = before
              /\ \A i, j \in 1..Len(added) :
                    i < j => FirstIndex(added[i], op.entries)
                                 < FirstIndex(added[j], op.entries)

\* C20: the registry is an insertion-ordered map with last-write-wins.  After
\* any sequence of construction, register, registerMany and unregister,
\* types() lists each type once, and lists exactly the types registered and
\* not unregistered since; has(t) is true exactly for the listed types; the
\* value stored under t is the one registered last; an operation leaves the
\* listed types in place and puts new ones at the end; and a dispatch for a
\* type with a registered handler runs the function registered last.
C20_InsertionOrderedLastWriteWins ==
    /\ [](\A i, j \in 1..Len(types) : i # j => types[i] # types[j])
    /\ [](\A t \in RegTypes :
             /\ t \in Range(types) <=> latest[t] # Undef
             /\ has(t) <=> t \in Range(types)
             /\ HandlersGet(handlers, t) = latest[t])
    /\ [][(lastOp' # lastOp \/ handlers' # handlers)
             => ListedInInsertionOrder(types, types', lastOp')]_vars
    /\ [][(dpc = "idle" /\ dpc' # "idle" /\ isFn(latest[Get(msg', "type").s]))
             => (dpc' = "awaiting" /\ fn' = latest[Get(msg', "type").s])]_vars
    /\ [](hpc \in {"running", "returned", "hung"} => callee = fn)

\* ping was registered again while pong was listed after it: it kept its
\* place, and a dispatch for ping ran the function registered last
C20_Witness ==
    /\ types = <<"ping", "pong">>
    /\ lastOp = [op |-> "register", type |-> "ping", fn |-> Fn("ping2"),
                 threw |-> FALSE]
    /\ dpc = "done" /\ MsgType = "ping" /\ callee = Fn("ping2")
    /\ Resolved

\* ping was unregistered and registered again: it is listed last
C20_WitnessMoved ==
    /\ types = <<"pong", "ping">> /\ handlers[2].fn = Fn("ping1")
    /\ lastOp = [op |-> "register", type |-> "ping", fn |-> Fn("ping1"),
                 threw |-> FALSE]


\* what a dispatch shows of itself: its envelope, its signal and its timer
Outcome == <<promise, payloadToReturn, responded, signal, timer>>

PeerOutcome == <<peer.promise, peer.payloadToReturn, peer.responded,
                 peer.signal, peer.timer>>

\* C19: interleaved dispatches are isolated.  With two dispatches in flight
\* on one HermesHandler, in any interleaving, each resolves with the
\* normalization of the first payload that reached its own ctx.send; and a
\* step of one dispatch (a send, a timeout, an abort, any other) changes
\* neither the envelope, the response slot, the responded flag, the signal
\* nor the timer of the other.
C19_Isolated ==
    /\ []((Resolved /\ sendCalls > 0)
             => promise.v = freezeNormalized(firstPayload))
    /\ []((peer.promise.state = "fulfilled" /\ peer.sendCalls > 0)
             => peer.promise.v = freezeNormalized(peer.firstPayload))
    /\ [][inFlight' # inFlight => PeerOutcome' = PeerOutcome]_vars
    /\ [][peer' # peer => Outcome' = Outcome]_vars

\* both dispatches are in flight: each handler has sent its own response,
\* the second one's deadline has fired, and the first one's timer is still
\* pending with its signal not aborted
C19_Witness ==
    /\ dpc = "awaiting" /\ peer.dpc = "awaiting"
    /\ payloadToReturn = freezeNormalized(Str("first"))
    /\ peer.payloadToReturn = freezeNormalized(Str("peer first"))
    /\ peer.timer = "fired" /\ timer = "pending"
    /\ signal = "active"

\* both dispatches resolved, each with its own response
C19_WitnessResolved ==
    /\ dpc = "done" /\ peer.dpc = "done"
    /\ promise = Fulfilled(freezeNormalized(Str("first")))
    /\ peer.promise = Fulfilled(freezeNormalized(Str("peer first")))
    /\ timer = "cleared" /\ peer.timer = "fired"
    /\ signal = "aborted" /\ peer.signal = "aborted"

\* the envelope's own properties: which there are, and the values of ok,
\* result and error
OwnFields(envelope) ==
    [keys |-> DOMAIN envelope.f, ok |-> Get(envelope, "ok"),
     result |-> Get(envelope, "result"), error |-> Get(envelope, "error")]

\* C21 as stated: every envelope that dispatch returns is frozen, and no
\* later assignment changes its ok, result, error or extras fields: once
\* delivered, the envelope with its extras bag stays as it is.
C21_NothingChanges ==
    /\ [](Resolved => (promise.v.t = "object" /\ promise.v.frozen))
    /\ [][Resolved => promise'.v = promise.v]_vars

\* C21 amended: every envelope that dispatch returns, on every path, is
\* frozen before it is delivered, and no later assignment changes, adds or
\* removes a property of the envelope itself (ok, result, error, info).
C21_ShallowFrozen ==
    /\ [](Resolved => (promise.v.t = "object" /\ promise.v.frozen))
    /\ [][Resolved => OwnFields(promise'.v) = OwnFields(promise.v)]_vars

\* an assignment to a field of the extras bag of a delivered envelope went
\* through, after assignments to the envelope itself had been without effect
C21_Witness ==
    /\ Resolved /\ promise.v.frozen
    /\ Get(promise.v, "ok") = Bool(TRUE)
    /\ Get(Get(promise.v, "info"), "extra") = AssignedValue
    /\ firstPayload = Obj([ok |-> Bool(TRUE), result |-> Str("r"),
                           extra |-> Num(1)])


\* the await of a dispatch continues in the catch block: the handler threw,
\* or the deadline fired, before anything else settled the race
ResumesInCatch ==
    dpc = "awaiting" /\ dpc' = "done" /\ race.state = "rejected"

\* C22: onError is invoked exactly when a registered handler throws or the
\* timeout fires while no response has been sent, and at most once per
\* dispatch.  If the handler had called send before it threw or timed out,
\* onError is not invoked and the dispatch resolves to the response that was
\* sent.
C22_OnErrorExactlyWhen ==
    /\ [](collabCalls.onError <= 1)
    /\ [](race.state = "rejected" => (hpc = "threw" \/ timer = "fired"))
    /\ [][collabCalls'.onError # collabCalls.onError
             <=> (ResumesInCatch /\ ~responded)]_vars
    /\ [][(ResumesInCatch /\ responded)
             => /\ respondedBy = "handler"
                /\ promise' = Fulfilled(payloadToReturn)
                /\ payloadToReturn' = payloadToReturn
                /\ Get(payloadToReturn, "ok").t = "boolean"]_vars

\* a handler sent a response and then threw: onError was not called and the
\* dispatch resolved with the response
C22_Witness ==
    /\ dpc = "done" /\ hpc = "threw" /\ race.state = "rejected"
    /\ respondedBy = "handler" /\ firstPayload = Str("first")
    /\ collabCalls.onError = 0
    /\ promise = Fulfilled(ObjectFreeze(Obj([ok |-> Bool(TRUE),
                                             result |-> Str("first")])))

\* the deadline fired on a handler that had sent nothing: onError was called
\* once
C22_WitnessInvoked ==
    /\ dpc = "done" /\ timer = "fired" /\ respondedBy = "onError"
    /\ collabCalls.onError = 1


\* the failure that the deadline of the dispatch produces
TimeoutFailure ==
    [t |-> "Error",
     message |-> "Handler " \o MsgType \o " timed out ("
                     \o (IF timeoutMs = Infinity THEN "Infinity"
                         ELSE ToString(timeoutMs.n)) \o " ms)"]

\* the handler has returned or thrown
Completed == hpc \in {"returned", "threw"}

\* C23: the timeout race settles with whichever event happens first.  The
\* deadline fires only on a race that is pending with a handler that has not
\* completed, and never after the handler completed; a race settled without
\* the deadline having fired holds the handler's own result or failure, and
\* the dispatch then never resolves with the timeout error; once the deadline
\* has fired the race holds the timeout failure, whatever the handler returns
\* or throws later.
C23_FirstEventSettles ==
    /\ [][(timer # "fired" /\ timer' = "fired")
             => (race.state = "pending" /\ ~Completed
                 /\ race' = Rejected(TimeoutFailure))]_vars
    /\ [][(Completed /\ timer # "fired") => timer' # "fired"]_vars
    /\ []((timer # "fired" /\ race.state = "fulfilled") => hpc = "returned")
    /\ []((timer # "fired" /\ race.state = "rejected")
             => (hpc = "threw" /\ race.v # TimeoutFailure))
    /\ []((Validated /\ PositiveFinite(timeoutMs) /\ timer # "fired"
               /\ Resolved)
             => promise.v # TimeoutEnvelope)
    /\ [](~PositiveFinite(timeoutMs) => timer = "none")
    /\ [](timer = "fired" => race = Rejected(TimeoutFailure))

\* the deadline fired first and the handler returned afterwards: the race
\* still holds the timeout failure
C23_Witness ==
    /\ timer = "fired" /\ hpc = "returned" /\ chain = NoChain
    /\ race = Rejected(TimeoutFailure)
    /\ dpc = "done" /\ promise = Fulfilled(TimeoutEnvelope)

\* the handler threw first: the timer was cleared and the race holds the
\* handler's failure
C23_WitnessHandlerFirst ==
    /\ timer = "cleared" /\ hpc = "threw"
    /\ race = Rejected(NewError("boom"))


\* ---------------------------------------------------------------------------
\* The unknown-type route against the handler-return route

\* the envelope of a dispatch to type whose handler calls no ctx.send and
\* returns v: the try block after the await, on a context nobody has answered
EnvelopeOfReturn(type, v) ==
    LET ctx == [responded |-> FALSE, payloadToReturn |-> freezeNormalized(NoResponse)]
    IN  ctxSendAll(ctx, TryCallsFor(type, ctx, v)).payloadToReturn

\* C24: on a routing miss the value returned by onUnknown is processed as a
\* handler's synchronous return value is: for every returned value, undefined
\* and malformed envelopes included, the dispatch resolves to the envelope a
\* handler returning that value would produce
C24_UnknownAsHandlerReturn ==
    (Validated /\ Resolved /\ respondedBy = "onUnknown")
        => promise.v = EnvelopeOfReturn(MsgType, firstPayload)

\* the same, for the values other than undefined
C24_DefinedUnknownAsHandlerReturn ==
    (Validated /\ Resolved /\ respondedBy = "onUnknown" /\ firstPayload # Undef)
        => promise.v = EnvelopeOfReturn(MsgType, firstPayload)


\* ---------------------------------------------------------------------------
\* The values the registry stores

\* C25: after construction with initial handlers and any sequence of register,
\* registerMany and unregister, every value stored in the registry is a
\* function, so a dispatch for a type that has(type) reports invokes a handler
\* and does not take the unknown-type route; a register that is rejected (the
\* value is not a function) throws and leaves the registry unchanged
C25_RegistryHoldsFunctions ==
    /\ [](\A i \in 1..Len(handlers) : isFn(handlers[i].fn))
    /\ [][(dpc = "idle" /\ dpc' # "idle" /\ has(Get(msg', "type").s))
             => (/\ dpc' = "awaiting" /\ isFn(fn')
                 /\ collabCalls'.onUnknown = collabCalls.onUnknown)]_vars
    /\ [](hpc \in {"running", "returned", "hung"} => isFn(callee))
    /\ [][(lastOp' # lastOp /\ lastOp'.op = "register" /\ ~isFn(lastOp'.fn))
             => (lastOp'.threw /\ handlers' = handlers)]_vars


\* ---------------------------------------------------------------------------
\* Normalizing an envelope a second time

\* the envelopes of the dispatches of an instance, one for each value a
\* handler returns
NestedEnvelopes == {freezeNormalized(v) : v \in ReturnValues}

\* a dispatch whose handler returns the envelope of a nested dispatch
NestInit ==
    /\ Init
    /\ timeoutMs = Num(DefaultTimeoutMs)
    /\ onUnknown = Default /\ onError = Default
    /\ hasAbortController

NestNext ==
    \/ \E m \in Messages : Dispatch(m)
    \/ HandlerStart
    \/ \E p \in SendPayloads : HandlerSend(p)
    \/ \E v \in NestedEnvelopes : HandlerReturn(v)
    \/ \E e \in ThrownValues : HandlerThrow(e)
    \/ HandlerHang
    \/ ResolveWithCleanup
    \/ RejectWithCleanup
    \/ TimerFire
    \/ DispatchResume

NestSpec == NestInit /\ [][NestNext]_vars

\* the fields of an envelope that a caller reads
EnvelopeKeys == {"ok", "result", "error", "info"}

\* the dispatch resolved to what the handler returned, an envelope
ReturnedEnvelope ==
    /\ Validated /\ Resolved
    /\ respondedBy = "return" /\ firstPayload \in NestedEnvelopes

\* C26: normalization is idempotent: an envelope the normalizer produced, put
\* through the normalizer again (a handler returning the envelope of a nested
\* dispatch), comes out with the same ok, result, error and extras, also when
\* it carries an extras bag
C26_NormalizeIdempotent ==
    ReturnedEnvelope
        => \A k \in EnvelopeKeys : Get(promise.v, k) = Get(firstPayload, k)

\* the same, for the envelopes that carry no extras bag
C26_IdempotentWithoutExtras ==
    (ReturnedEnvelope /\ ~In("info", firstPayload))
        => \A k \in EnvelopeKeys : Get(promise.v, k) = Get(firstPayload, k)


\* ---------------------------------------------------------------------------
\* getListener

\* the sendResponse argument of the listener: absent, a callback that
\* returns, a callback that throws (its port is closed)
SendResponseOptions ==
    {Undef, Fn("sendResponse"), Fn("sendResponseThrows")}

SendResponseThrows(sr) == sr = Fn("sendResponseThrows")

PortClosed == NewError("port closed")

\* (msg, sender, sendResponse) => { const p = this._dispatch(msg, sender);
\*   if (isFn(sendResponse)) { p.then(...).catch(...); return true; }
\*   return p; }
ListenerCall(m, sr) ==
    /\ listener.lpc = "idle"
    /\ DispatchCall(m)
    /\ listener' = [ListenerIdle EXCEPT
                       !.lpc = IF isFn(sr) THEN "attached" ELSE "returned",
                       !.sendResponse = sr,
                       !.returned = IF isFn(sr) THEN "true" ELSE "promise"]

\* p.then(sendResponse): the reaction to the dispatch promise
ListenerThen ==
    /\ listener.lpc = "attached"
    /\ promise.state # "pending"
    /\ listener' =
         IF promise.state = "fulfilled"
         THEN [listener EXCEPT
                  !.calls = Append(@, promise.v),
                  !.lpc = IF SendResponseThrows(listener.sendResponse)
                          THEN "catching" ELSE "done",
                  !.err = IF SendResponseThrows(listener.sendResponse)
                          THEN PortClosed ELSE @]
         ELSE [listener EXCEPT !.lpc = "catching", !.err = promise.v]
    /\ UNCHANGED <<config, peer, inFlight>>

\* .catch((err) => sendResponse(freezeNormalized(this._onError(err, ...))))
ListenerCatch ==
    /\ listener.lpc = "catching"
    /\ LET out == CallOnError(onError, listener.err)
       IN  listener' =
             IF out.threw
             THEN [listener EXCEPT !.lpc = "unhandled", !.err = out.v]
             ELSE [listener EXCEPT
                      !.calls = Append(@, freezeNormalized(out.v)),
                      !.lpc = IF SendResponseThrows(listener.sendResponse)
                              THEN "unhandled" ELSE "done",
                      !.err = IF SendResponseThrows(listener.sendResponse)
                              THEN PortClosed ELSE @]
    /\ collabCalls' = [collabCalls EXCEPT !.onError = @ + 1]
    /\ UNCHANGED <<config, peer, dpc, msg, ctxVars, signal, fn, timer, race,
                   hpc, chain, promise, sendHistory, handlerSends,
                   timersAllocated, deliveries, callee>>

\* a message arriving at the listener of a dispatcher with the default timeout
ListenerInit ==
    /\ Init
    /\ timeoutMs = Num(DefaultTimeoutMs)
    /\ hasAbortController

ListenerNext ==
    \/ \E m \in Messages, sr \in SendResponseOptions : ListenerCall(m, sr)
    \/ HandlerStart
    \/ \E p \in SendPayloads : HandlerSend(p)
    \/ \E v \in ReturnValues : HandlerReturn(v)
    \/ \E e \in ThrownValues : HandlerThrow(e)
    \/ HandlerHang
    \/ ResolveWithCleanup
    \/ RejectWithCleanup
    \/ TimerFire
    \/ DispatchResume
    \/ ListenerThen
    \/ ListenerCatch

\* the event loop runs every queued reaction of the listener's promise chain
ListenerSpec ==
    /\ ListenerInit /\ [][ListenerNext]_vars
    /\ WF_vars(HandlerStart)
    /\ WF_vars(HandlerCompletes)
    /\ WF_vars(ResolveWithCleanup)
    /\ WF_vars(RejectWithCleanup)
    /\ WF_vars(TimerFire)
    /\ WF_vars(DispatchResume)
    /\ WF_vars(ListenerThen)
    /\ WF_vars(ListenerCatch)

\* the listener was called with a sendResponse callback
WithCallback == listener.lpc # "idle" /\ isFn(listener.sendResponse)

\* the listener was called without one
WithoutCallback == listener.lpc # "idle" /\ ~isFn(listener.sendResponse)

\* C27: for every inbound message the listener, given a sendResponse
\* callback, returns true synchronously and later invokes sendResponse exactly
\* once with an envelope, whatever the outcome of the dispatch and whether or
\* not sendResponse throws; given no callback it returns the dispatch promise
\* and calls no callback
C27_ListenerRespondsOnce ==
    /\ [](WithCallback => listener.returned = "true")
    /\ [](WithCallback => Len(listener.calls) <= 1)
    /\ [](\A i \in 1..Len(listener.calls) :
             /\ TypeofObject(listener.calls[i])
             /\ Get(listener.calls[i], "ok").t = "boolean")
    /\ WithCallback ~> (Len(listener.calls) = 1)
    /\ [](WithoutCallback
             => listener.returned = "promise" /\ listener.calls = <<>>)

\* the same, for a sendResponse that returns and a dispatch that resolves
C27_RespondsOnceWhenNothingThrows ==
    /\ [](WithCallback => listener.returned = "true")
    /\ []((WithCallback /\ ~SendResponseThrows(listener.sendResponse)
              /\ promise.state # "rejected")
            => Len(listener.calls) <= 1)
    /\ (WithCallback /\ ~SendResponseThrows(listener.sendResponse))
          ~> (Len(listener.calls) = 1 \/ promise.state = "rejected")
    /\ [](WithoutCallback
             => listener.returned = "promise" /\ listener.calls = <<>>)

====
